---- MODULE Spec2Model ----
(***************************************************************************)
(* A model of vmess_vless_full_pipeline.py: the decode pass that rewrites  *)
(* the source file in place (decode_file_inplace), the normalizer, the two *)
(* codecs, and the encode pass (encode_files / make_proxy_lines).          *)
(*                                                                         *)
(* Text is modelled as sequences of one-character strings, so strip(),     *)
(* lower(), str.replace(), the netloc parsing of urlparse and the port     *)
(* conversion are computed character by character.                         *)
(***************************************************************************)
EXTENDS Integers, Sequences, FiniteSets, TLC

(***************************************************************************)
(* Bounds of the model.                                                    *)
(***************************************************************************)
MaxLines == 3
MaxSubs == 3

(***************************************************************************)
(* Character-level helpers (Python str methods).                           *)
(***************************************************************************)
UpperCase == <<"A","B","C","D","E","F","G","H","I","J","K","L","M",
               "N","O","P","Q","R","S","T","U","V","W","X","Y","Z">>
LowerCase == <<"a","b","c","d","e","f","g","h","i","j","k","l","m",
               "n","o","p","q","r","s","t","u","v","w","x","y","z">>
DigitChars == <<"0","1","2","3","4","5","6","7","8","9">>
Whitespace == {" ", "\t", "\n", "\r"}

LowerChar(c) ==
  IF \E i \in DOMAIN UpperCase : UpperCase[i] = c
  THEN LowerCase[CHOOSE i \in DOMAIN UpperCase : UpperCase[i] = c]
  ELSE c

\* str.lower()
Lower(s) == [i \in DOMAIN s |-> LowerChar(s[i])]

RECURSIVE LStrip(_)
LStrip(s) == IF s # <<>> /\ Head(s) \in Whitespace THEN LStrip(Tail(s)) ELSE s

RECURSIVE RStrip(_)
RStrip(s) ==
  IF s # <<>> /\ s[Len(s)] \in Whitespace
  THEN RStrip(SubSeq(s, 1, Len(s) - 1)) ELSE s

\* str.strip()
Strip(s) == LStrip(RStrip(s))

StartsWith(s, p) == Len(s) >= Len(p) /\ SubSeq(s, 1, Len(p)) = p

\* str.replace(old, new): leftmost, non-overlapping occurrences
RECURSIVE Replace(_, _, _)
Replace(s, old, new) ==
  IF s = <<>> THEN <<>>
  ELSE IF StartsWith(s, old)
       THEN new \o Replace(SubSeq(s, Len(old) + 1, Len(s)), old, new)
       ELSE <<Head(s)>> \o Replace(Tail(s), old, new)

HasChar(s, c) == \E i \in DOMAIN s : s[i] = c
FirstIdx(s, c) == CHOOSE i \in DOMAIN s : s[i] = c /\ \A j \in 1..(i - 1) : s[j] # c
LastIdx(s, c) == CHOOSE i \in DOMAIN s : s[i] = c /\ \A j \in (i + 1)..Len(s) : s[j] # c

\* str.partition(c)[0] and [2]
BeforeFirst(s, c) == IF HasChar(s, c) THEN SubSeq(s, 1, FirstIdx(s, c) - 1) ELSE s
AfterFirst(s, c) == IF HasChar(s, c) THEN SubSeq(s, FirstIdx(s, c) + 1, Len(s)) ELSE <<>>
\* str.rpartition(c)[0] and [2]
BeforeLast(s, c) == IF HasChar(s, c) THEN SubSeq(s, 1, LastIdx(s, c) - 1) ELSE <<>>
AfterLast(s, c) == IF HasChar(s, c) THEN SubSeq(s, LastIdx(s, c) + 1, Len(s)) ELSE s

IsDigit(c) == \E i \in DOMAIN DigitChars : DigitChars[i] = c
DigitVal(c) == (CHOOSE i \in DOMAIN DigitChars : DigitChars[i] = c) - 1
\* str.isdigit() on ASCII text
IsDigits(s) == s # <<>> /\ \A i \in DOMAIN s : IsDigit(s[i])

\* int(s) for a string of digits
RECURSIVE ToNat(_)
ToNat(s) ==
  IF s = <<>> THEN 0
  ELSE 10 * ToNat(SubSeq(s, 1, Len(s) - 1)) + DigitVal(s[Len(s)])

\* str(n) for a natural number
RECURSIVE NatToStr(_)
NatToStr(n) ==
  IF n < 10 THEN <<DigitChars[n + 1]>>
  ELSE NatToStr(n \div 10) \o <<DigitChars[(n % 10) + 1]>>

(***************************************************************************)
(* Python values: a type tag and the text str() gives for the value.       *)
(***************************************************************************)
PyS(c) == [t |-> "str", s |-> c]
PyI(c) == [t |-> "int", s |-> c]
PyF(c) == [t |-> "float", s |-> c]
PyTrue == [t |-> "bool", s |-> <<"T","r","u","e">>]
PyFalse == [t |-> "bool", s |-> <<"F","a","l","s","e">>]
PyNone == [t |-> "none", s |-> <<"N","o","n","e">>]
PyL(c) == [t |-> "list", s |-> c]

\* str(v)
PyStr(v) == [t |-> "str", s |-> v.s]

\* bool(v)
Truthy(v) ==
  CASE v.t = "str" -> v.s # <<>>
    [] v.t = "int" -> v.s # <<"0">>
    [] v.t = "float" -> v.s # <<"0",".","0">>
    [] v.t = "bool" -> v = PyTrue
    [] v.t = "list" -> v.s # <<"[","]">>
    [] OTHER -> FALSE

TruthyWords == { <<"1">>, <<"t","r","u","e">>, <<"y","e","s">>, <<"y">>, <<"o","n">> }

truthy_to_int_no_numbers(v) ==
  CASE v.t = "bool" -> IF v = PyTrue THEN PyI(<<"1">>) ELSE PyI(<<"0">>)
    [] v.t = "str" -> IF Lower(Strip(v.s)) \in TruthyWords
                      THEN PyI(<<"1">>) ELSE PyI(<<"0">>)
    [] OTHER -> PyI(<<"0">>)

truthy_to_int(v) ==
  CASE v.t = "bool" -> IF v = PyTrue THEN PyI(<<"1">>) ELSE PyI(<<"0">>)
    [] v.t \in {"int", "float"} -> IF Truthy(v) THEN PyI(<<"1">>) ELSE PyI(<<"0">>)
    [] v.t = "str" -> IF Lower(Strip(v.s)) \in TruthyWords
                      THEN PyI(<<"1">>) ELSE PyI(<<"0">>)
    [] OTHER -> PyI(<<"0">>)

(***************************************************************************)
(* Python dicts: sequences of key/value entries in insertion order.        *)
(***************************************************************************)
Has(d, k) == \E i \in DOMAIN d : d[i].k = k
Get(d, k) == d[CHOOSE i \in DOMAIN d : d[i].k = k].v
GetOr(d, k, dflt) == IF Has(d, k) THEN Get(d, k) ELSE dflt
\* d[k] = v: an existing key keeps its place, a new key goes last
Put(d, k, v) ==
  IF Has(d, k)
  THEN [i \in DOMAIN d |-> IF d[i].k = k THEN [k |-> k, v |-> v] ELSE d[i]]
  ELSE Append(d, [k |-> k, v |-> v])
Keys(d) == [i \in DOMAIN d |-> d[i].k]

RECURSIVE PutAll(_, _)
PutAll(d, entries) ==
  IF entries = <<>> THEN d
  ELSE PutAll(Put(d, Head(entries).k, Head(entries).v), Tail(entries))

RECURSIVE PutMissing(_, _)
PutMissing(d, entries) ==
  IF entries = <<>> THEN d
  ELSE PutMissing(IF Has(d, Head(entries).k) THEN d
                  ELSE Put(d, Head(entries).k, Head(entries).v), Tail(entries))

(***************************************************************************)
(* Text constants of the program.                                          *)
(***************************************************************************)
S_vmess == <<"v","m","e","s","s">>
S_vless == <<"v","l","e","s","s">>
S_none == <<"n","o","n","e">>
S_tcp == <<"t","c","p">>
S_ws == <<"w","s">>
S_xhttp == <<"x","h","t","t","p">>
S_vkcom == <<"v","k",".","c","o","m">>
Empty == PyS(<<>>)

WANTED_ORDER_VMESS ==
  <<"add", "aid", "allowInsecure", "alpn", "fp", "host", "id", "net", "path",
    "port", "ps", "scy", "sni", "tls", "type", "v">>

WANTED_ORDER_VLESS ==
  <<"add", "port", "id", "ps", "type", "encryption", "security",
    "sni", "host", "path", "seed", "fp", "alpn", "allowInsecure",
    "mode", "pbk", "sid", "spx", "pqv", "ech", "flow">>

DEFAULTS_IF_MISSING_VMESS ==
  << [k |-> "aid", v |-> PyS(<<"0">>)],
     [k |-> "alpn", v |-> Empty],
     [k |-> "type", v |-> Empty],
     [k |-> "allowInsecure", v |-> PyI(<<"1">>)] >>

DEFAULTS_IF_MISSING_VLESS ==
  << [k |-> "encryption", v |-> PyS(S_none)],
     [k |-> "security", v |-> PyS(S_none)],
     [k |-> "type", v |-> PyS(S_tcp)],
     [k |-> "allowInsecure", v |-> PyI(<<"1">>)] >>

NON_QUERY_FIELDS == {"add", "port", "id", "ps"}
VLESS_QUERY_PARAMS ==
  SelectSeq(WANTED_ORDER_VLESS, LAMBDA f : f \notin NON_QUERY_FIELDS)

(***************************************************************************)
(* The normalizer.                                                         *)
(***************************************************************************)
EmptyFields(order) == [i \in DOMAIN order |-> [k |-> order[i], v |-> Empty]]

\* the steps normalize_vmess_entry and normalize_vless_entry share up to
\* the projection: port to str, allowInsecure to 0/1, defaults, empty fill
Coerced(d, defaults, order) ==
  LET out1 == IF Has(d, "port") THEN Put(d, "port", PyStr(Get(d, "port"))) ELSE d
      out2 == IF Has(out1, "allowInsecure")
              THEN Put(out1, "allowInsecure", truthy_to_int(Get(out1, "allowInsecure")))
              ELSE out1
      out3 == PutMissing(out2, defaults)
  IN  PutMissing(out3, EmptyFields(order))

Projected(out, order) ==
  [i \in DOMAIN order |-> [k |-> order[i], v |-> GetOr(out, order[i], Empty)]]

normalize_vmess_entry_unprojected(d) ==
  Put(Coerced(d, DEFAULTS_IF_MISSING_VMESS, WANTED_ORDER_VMESS), "_type", PyS(S_vmess))

normalize_vmess_entry(d) ==
  LET out == Coerced(d, DEFAULTS_IF_MISSING_VMESS, WANTED_ORDER_VMESS)
      ordered == Projected(out, WANTED_ORDER_VMESS)
  IN  Put(ordered, "_type", PyS(S_vmess))

normalize_vless_entry_sparse(d) ==
  Put(SelectSeq(d, LAMBDA e : e.k # "_type"), "_type", PyS(S_vless))

normalize_vless_entry(d) ==
  LET out == Coerced(d, DEFAULTS_IF_MISSING_VLESS, WANTED_ORDER_VLESS)
      ordered == Projected(out, WANTED_ORDER_VLESS)
  IN  Put(ordered, "_type", PyS(S_vless))

normalize_entry(d) ==
  IF Has(d, "_type") /\ Get(d, "_type") = PyS(S_vless)
  THEN normalize_vless_entry(d)
  ELSE normalize_vmess_entry(d)

(***************************************************************************)
(* Lines of text.  A line is described by its lexical shape:               *)
(*   kind   "blank", "vmess" (vmess:// + base64), "vless" (vless:// URL),  *)
(*          "brace" ({...}), "text" (anything else)                        *)
(*   mod4   the length of the base64 text modulo 4 (kind vmess)            *)
(*   body   what the JSON text (the line itself, or the base64 payload)    *)
(*          is: "object" (a JSON object), "array" (valid JSON, no object), *)
(*          "invalid" (no JSON)                                            *)
(*   obj    the members of the JSON object, in text order                  *)
(*   netloc, query, frag   the parts of the URL (kind vless); the query is *)
(*          the sequence of its key=value pairs, values unquoted           *)
(*   raw    the characters of a text that is no JSON object                *)
(***************************************************************************)
NoLine ==
  [kind |-> "blank", mod4 |-> 0, body |-> "invalid", obj |-> <<>>,
   netloc |-> <<>>, query |-> <<>>, frag |-> <<>>, raw |-> <<>>]

\* json.dumps(d, ensure_ascii=False, separators=(",", ":"))
JsonDumps(d) == [NoLine EXCEPT !.kind = "brace", !.body = "object", !.obj = d]

\* whether json.loads(text) returns
JsonParses(text) == text.kind \in {"brace", "text"} /\ text.body \in {"object", "array"}

\* json.loads of an object: a repeated key keeps its first place, last value
JsonLoads(members) == PutAll(<<>>, members)

\* "vmess://" + base64.b64encode(text.encode("utf-8")).decode("ascii")
VmessB64(text) == [text EXCEPT !.kind = "vmess", !.mod4 = 0]

\* line.strip(): trailing blanks of a URL are the end of its fragment
StripLine(line) ==
  CASE line.kind = "vless" -> [line EXCEPT !.frag = RStrip(@)]
    [] line.kind = "text" -> [line EXCEPT !.raw = Strip(@)]
    [] OTHER -> line

(***************************************************************************)
(* Scheme B codec.                                                         *)
(***************************************************************************)
RECURSIVE JoinQuoted(_)
JoinQuoted(vals) ==
  IF vals = <<>> THEN <<>>
  ELSE <<"'">> \o Head(vals) \o <<"'">>
       \o (IF Tail(vals) = <<>> THEN <<>> ELSE <<",", " ">> \o JoinQuoted(Tail(vals)))

\* str() of a list of strings
ListRepr(vals) == <<"[">> \o JoinQuoted(vals) \o <<"]">>

\* urllib.parse.parse_qs, then value[0] if len(value) == 1 else value
RECURSIVE QsItems(_, _)
QsItems(q, seen) ==
  IF q = <<>> THEN <<>>
  ELSE LET k == Head(q).k
           vals == [i \in DOMAIN SelectSeq(q, LAMBDA e : e.k = k) |->
                      SelectSeq(q, LAMBDA e : e.k = k)[i].v]
       IN  IF k \in seen THEN QsItems(Tail(q), seen)
           ELSE <<[k |-> k, v |-> IF Len(vals) = 1 THEN PyS(vals[1])
                                  ELSE PyL(ListRepr(vals))]>>
                \o QsItems(Tail(q), seen \cup {k})

ParseQs(query) == QsItems(SelectSeq(query, LAMBDA e : e.v # <<>>), {})

\* urlparse(url): username, hostname, port of the netloc
UrlUsername(netloc) ==
  IF HasChar(netloc, "@") THEN PyS(BeforeFirst(BeforeLast(netloc, "@"), ":")) ELSE PyNone
UrlHostname(netloc) ==
  LET host == BeforeFirst(AfterLast(netloc, "@"), ":")
  IN  IF host = <<>> THEN PyNone ELSE PyS(Lower(host))
UrlPortText(netloc) == AfterFirst(AfterLast(netloc, "@"), ":")
UrlPortRaises(netloc) ==
  LET p == UrlPortText(netloc)
  IN  p # <<>> /\ (~IsDigits(p) \/ ToNat(p) > 65535)
UrlPort(netloc) ==
  LET p == UrlPortText(netloc)
  IN  IF p = <<>> THEN PyNone ELSE PyI(NatToStr(ToNat(p)))

\* parse_vless_url: [ok, d]; ok is FALSE when reading the port raises
parse_vless_url(url) ==
  IF UrlPortRaises(url.netloc) THEN [ok |-> FALSE, d |-> <<>>]
  ELSE [ok |-> TRUE,
        d |-> PutAll(<< [k |-> "id", v |-> UrlUsername(url.netloc)],
                        [k |-> "add", v |-> UrlHostname(url.netloc)],
                        [k |-> "port", v |-> PyStr(UrlPort(url.netloc))],
                        [k |-> "ps", v |-> PyS(url.frag)] >>,
                     ParseQs(url.query))]

\* the query parameters encode_vless_url keeps
QueryOf(config) ==
  LET kept == SelectSeq(VLESS_QUERY_PARAMS,
                        LAMBDA f : Has(config, f) /\ Truthy(Get(config, f))
                                   /\ Get(config, f) # Empty)
  IN  [i \in DOMAIN kept |-> [k |-> kept[i], v |-> Get(config, kept[i]).s]]

\* encode_vless_url: [ok, line]; ok is FALSE on a KeyError (no id, add or
\* port) and when urlunparse refuses a fragment that is no string
encode_vless_url(config) ==
  IF ~(Has(config, "id") /\ Has(config, "add") /\ Has(config, "port"))
  THEN [ok |-> FALSE, line |-> NoLine]
  ELSE LET ps == GetOr(config, "ps", Empty)
       IN  IF ps.t # "str" /\ Truthy(ps) THEN [ok |-> FALSE, line |-> NoLine]
           ELSE [ok |-> TRUE,
                 line |-> [NoLine EXCEPT
                   !.kind = "vless",
                   !.netloc = Get(config, "id").s \o <<"@">> \o Get(config, "add").s
                              \o <<":">> \o Get(config, "port").s,
                   !.query = QueryOf(config),
                   !.frag = IF ps.t = "str" THEN ps.s ELSE <<>>]]

(***************************************************************************)
(* decode_vmess_or_vless_line: [ok, d]; ok is FALSE when it raises.        *)
(***************************************************************************)
decode_line_lenient(line) ==
  LET s == StripLine(line)
  IN  CASE s.kind = "vmess" /\ s.body = "object" ->
             [ok |-> TRUE, d |-> Put(JsonLoads(s.obj), "_type", PyS(S_vmess))]
        [] s.kind = "vless" /\ ~UrlPortRaises(s.netloc) ->
             [ok |-> TRUE, d |-> Put(parse_vless_url(s).d, "_type", PyS(S_vless))]
        [] s.kind = "brace" /\ s.body = "object" ->
             [ok |-> TRUE,
              d |-> Put(JsonLoads(s.obj), "_type",
                        GetOr(JsonLoads(s.obj), "_type", PyS(S_vmess)))]
        [] OTHER -> [ok |-> TRUE, d |-> <<>>]

decode_vmess_or_vless_line(line) ==
  LET s == StripLine(line)
      Raise == [ok |-> FALSE, d |-> <<>>]
  IN  CASE s.kind = "blank" -> Raise
        [] s.kind = "vmess" ->
             LET pad == (4 - s.mod4) % 4
             IN  IF pad = 3 \/ s.body # "object" THEN Raise
                 ELSE [ok |-> TRUE, d |-> Put(JsonLoads(s.obj), "_type", PyS(S_vmess))]
        [] s.kind = "vless" ->
             LET r == parse_vless_url(s)
             IN  IF r.ok THEN [ok |-> TRUE, d |-> Put(r.d, "_type", PyS(S_vless))]
                 ELSE Raise
        [] s.kind = "brace" ->
             IF s.body # "object" THEN Raise
             ELSE LET obj == JsonLoads(s.obj)
                  IN  [ok |-> TRUE,
                       d |-> Put(obj, "_type", GetOr(obj, "_type", PyS(S_vmess)))]
        [] OTHER -> Raise

(***************************************************************************)
(* The template substitution engine.                                       *)
(***************************************************************************)
SetIfPresent(obj, k, v) == IF Has(obj, k) THEN Put(obj, k, v) ELSE obj

\* template_obj["ps"] = f'{template_obj["ps"]} ({rep})'
Labelled(obj, rep) ==
  IF Has(obj, "ps")
  THEN Put(obj, "ps", PyS(Get(obj, "ps").s \o <<" ", "(">> \o rep \o <<")">>))
  ELSE obj

\* the body of the loop of make_vmess_lines: the line appended for rep
vmess_line(template, rep) ==
  IF JsonParses(template) /\ template.body = "object"
  THEN VmessB64(JsonDumps(
         Labelled(SetIfPresent(SetIfPresent(JsonLoads(template.obj),
                                            "sni", PyS(rep)),
                               "host", PyS(rep)), rep)))
  ELSE IF JsonParses(template)
       \* a JSON array holds none of the keys and is dumped as it was read
       THEN VmessB64(template)
       \* the fallback: template.replace("vk.com", rep)
       ELSE VmessB64([template EXCEPT !.raw = Replace(@, S_vkcom, rep)])

RECURSIVE vmess_loop(_, _, _)
vmess_loop(template, reps, out) ==
  IF reps = <<>> THEN out
  ELSE vmess_loop(template, Tail(reps), Append(out, vmess_line(template, Head(reps))))

RECURSIVE vmess_loop_unique(_, _, _, _)
vmess_loop_unique(template, reps, seen, out) ==
  IF reps = <<>> THEN out
  ELSE vmess_loop_unique(template, Tail(reps), seen \cup {Head(reps)},
         IF Head(reps) \in seen THEN out
         ELSE Append(out, vmess_line(template, Head(reps))))

make_vmess_lines_unique(template, replacements) ==
  [out |-> vmess_loop_unique(template, replacements, {}, <<>>), errs |-> 0]

\* make_vmess_lines: out, the lines; errs, the messages printed (none)
make_vmess_lines(template, replacements) ==
  [out |-> vmess_loop(template, replacements, <<>>), errs |-> 0]

\* the try block of make_vless_lines: [ok, line]; ok is FALSE when it raises
vless_line_host_always(template, rep) ==
  IF ~(JsonParses(template) /\ template.body = "object")
  THEN [ok |-> FALSE, line |-> NoLine]
  ELSE LET o1 == SetIfPresent(JsonLoads(template.obj), "sni", PyS(rep))
       IN  IF Has(o1, "host") /\ ~Has(o1, "type") THEN [ok |-> FALSE, line |-> NoLine]
           ELSE encode_vless_url(Labelled(SetIfPresent(o1, "host", PyS(rep)), rep))

vless_line(template, rep) ==
  IF ~(JsonParses(template) /\ template.body = "object")
  \* json.loads raises, or encode_vless_url indexes a list by 'id'
  THEN [ok |-> FALSE, line |-> NoLine]
  ELSE LET o1 == SetIfPresent(JsonLoads(template.obj), "sni", PyS(rep))
       IN  IF Has(o1, "host") /\ ~Has(o1, "type")
           THEN [ok |-> FALSE, line |-> NoLine]     \* KeyError: 'type'
           ELSE LET o2 == IF Has(o1, "host")
                             /\ Get(o1, "type") \notin {PyS(S_xhttp), PyS(S_ws)}
                          THEN Put(o1, "host", PyS(rep)) ELSE o1
                IN  encode_vless_url(Labelled(o2, rep))

RECURSIVE vless_loop(_, _, _)
vless_loop(template, reps, acc) ==
  IF reps = <<>> THEN acc
  ELSE LET r == vless_line(template, Head(reps))
       IN  vless_loop(template, Tail(reps),
                      IF r.ok THEN [acc EXCEPT !.out = Append(@, r.line)]
                      ELSE [acc EXCEPT !.errs = @ + 1])

\* make_vless_lines: out, the lines; errs, the messages printed to stderr
make_vless_lines(template, replacements) ==
  vless_loop(template, replacements, [out |-> <<>>, errs |-> 0])

\* the scheme make_proxy_lines picks
ProxyType(template) ==
  IF JsonParses(template) /\ template.body = "object"
  THEN GetOr(JsonLoads(template.obj), "_type", PyS(S_vmess))
  ELSE IF template.kind = "vless" THEN PyS(S_vless) ELSE PyS(S_vmess)

make_proxy_lines(template, replacements) ==
  IF ProxyType(template) = PyS(S_vmess)
  THEN make_vmess_lines(template, replacements)
  ELSE make_vless_lines(template, replacements)

(***************************************************************************)
(* Reading files.                                                          *)
(***************************************************************************)
\* read_first_nonempty_line: "" (NoLine) when every line is blank
read_first_nonempty_line(lines) ==
  IF \E i \in DOMAIN lines : lines[i].kind # "blank"
  THEN lines[CHOOSE i \in DOMAIN lines :
               lines[i].kind # "blank" /\ \A j \in 1..(i - 1) : lines[j].kind = "blank"]
  ELSE NoLine

\* read_lines: the stripped non-blank lines
read_lines(lines) ==
  SelectSeq([i \in DOMAIN lines |-> Strip(lines[i])], LAMBDA l : l # <<>>)

\* the text decode_file_inplace writes for a normalized record
compact_by_scheme(norm) ==
  IF Get(norm, "_type") = PyS(S_vmess) THEN JsonDumps(norm)
  ELSE encode_vless_url(norm).line

compact(norm) == JsonDumps(norm)

(***************************************************************************)
(* encode_files, as a function of the files it reads: the exit status (0   *)
(* when it returns), whether the destination is written and with what, and *)
(* the messages printed to stderr.                                         *)
(***************************************************************************)
Msg(src, n) == [src |-> src, n |-> n]
Fatal == [exit |-> 1, wrote |-> FALSE, lines |-> <<>>, msgs |-> <<Msg("fatal", 0)>>]

encode_files_strict(tmplExists, tmplLines, sniThere, sniLines) ==
  IF ~tmplExists \/ ~sniThere
     \/ read_first_nonempty_line(tmplLines).kind = "blank"
     \/ read_lines(sniLines) = <<>>
  THEN Fatal
  ELSE [exit |-> 0, wrote |-> TRUE,
        lines |-> make_proxy_lines(read_first_nonempty_line(tmplLines),
                                   read_lines(sniLines)).out,
        msgs |-> <<>>]

encode_files(tmplExists, tmplLines, sniThere, sniLines) ==
  IF ~tmplExists THEN Fatal
  ELSE IF ~sniThere THEN Fatal
  ELSE LET template == read_first_nonempty_line(tmplLines)
           replacements == read_lines(sniLines)
           r == make_proxy_lines(template, replacements)
       IN  IF template.kind = "blank" THEN Fatal
           ELSE IF replacements = <<>>
           THEN [exit |-> 0, wrote |-> TRUE, lines |-> <<>>,
                 msgs |-> <<Msg("warn", 0)>>]
           ELSE [exit |-> 0, wrote |-> TRUE, lines |-> r.out,
                 msgs |-> [i \in 1..r.errs |-> Msg("vless", 0)]]

(***************************************************************************)
(* Inputs.                                                                 *)
(***************************************************************************)
C_a == <<"a", ".", "c", "o">>
C_b == <<"b", ".", "c", "o">>
E(k, v) == [k |-> k, v |-> v]

\* vmess:// + base64 of a JSON object, its padding stripped; "add" is
\* given twice and "x" is no canonical field
L_vmess ==
  [NoLine EXCEPT !.kind = "vmess", !.mod4 = 2, !.body = "object",
     !.obj = << E("add", PyS(<<"o","l","d">>)), E("port", PyI(<<"4","4","3">>)),
                E("id", PyS(<<"u","1">>)), E("ps", PyS(<<"N","o","d","e">>)),
                E("host", PyS(<<"o","l","d">>)), E("allowInsecure", PyFalse),
                E("x", PyS(<<"1">>)), E("add", PyS(<<"e","x",".","c","o">>)) >>]

\* vless://u1@H.Ex:0443?security=tls&sni=s.ex&type=ws&host=h.ex
\*         &allowInsecure=0&alpn=&path=a&path=b#Lbl
L_vless ==
  [NoLine EXCEPT !.kind = "vless",
     !.netloc = <<"u","1","@","H",".","E","x",":","0","4","4","3">>,
     !.query = << E("security", <<"t","l","s">>), E("sni", <<"s",".","e","x">>),
                  E("type", S_ws), E("host", <<"h",".","e","x">>),
                  E("allowInsecure", <<"0">>), E("alpn", <<>>),
                  E("path", <<"a">>), E("path", <<"b">>) >>,
     !.frag = <<"L","b","l"," ">>]

\* {"_type":"vless","id":"u2","add":"b.ex","port":8443,"host":"h2",
\*  "type":"tcp","ps":"J"}
L_json ==
  [NoLine EXCEPT !.kind = "brace", !.body = "object",
     !.obj = << E("_type", PyS(S_vless)), E("id", PyS(<<"u","2">>)),
                E("add", PyS(<<"b",".","e","x">>)), E("port", PyI(<<"8","4","4","3">>)),
                E("host", PyS(<<"h","2">>)), E("type", PyS(S_tcp)),
                E("ps", PyS(<<"J">>)) >>]

\* malformed lines: a base64 text one character longer than a multiple of
\* 4, braces around no JSON, a line of neither scheme, a URL whose port is
\* no number
L_badb64 == [L_vmess EXCEPT !.mod4 = 1]
L_badjson ==
  [NoLine EXCEPT !.kind = "brace", !.raw = <<"{">> \o S_vkcom \o <<"}">>]
L_text ==
  [NoLine EXCEPT !.kind = "text", !.raw = <<"s","s",":","/","/">> \o S_vkcom]
L_badport ==
  [NoLine EXCEPT !.kind = "vless", !.netloc = <<"u","@","h",":","7","x">>]

GoodLines == {L_vmess, L_vless, L_json}
BadLines == {L_badb64, L_badjson, L_text, L_badport}
SampleLines == GoodLines \cup BadLines \cup {NoLine}

\* whether a line is malformed, by its shape (not by running the decoder)
Malformed(line) ==
  \/ line.kind = "text"
  \/ line.kind \in {"vmess", "brace"} /\ line.body # "object"
  \/ line.kind = "vmess" /\ line.mod4 = 1
  \/ line.kind = "vless" /\ UrlPortText(line.netloc) # <<>>
                         /\ (~IsDigits(UrlPortText(line.netloc))
                             \/ ToNat(UrlPortText(line.netloc)) > 65535)

SeqsUpTo(S, n) == UNION {[1..m -> S] : m \in 0..n}

\* the substitution file of a pipeline run: the first n lines of a file
\* with a blank line, a line with blanks around it and a repeated line
SniPattern == <<C_a, <<>>, <<" ">> \o C_b \o <<" ">>, C_a>>
SniFile(n) == [i \in 1..n |-> SniPattern[((i - 1) % Len(SniPattern)) + 1]]

(***************************************************************************)
(* State.                                                                  *)
(*   pipeline run (main): pc, the three files, the temporary file, the     *)
(*   counters of decode_file_inplace, stderr, the exit status;             *)
(*   orig is the source as it was when the run started.                    *)
(***************************************************************************)
VARIABLES pc, srcExists, source, orig, sniExists, sni, destExists, dest,
          tmpOpen, tmp, idx, written, vmess_count, vless_count,
          stderr, exitCode,
          \* a call of make_proxy_lines
          gpc, template, replacements, proxy_lines,
          \* a record through normalize_entry and the codecs
          npc, raw, norm, renorm, trip

pipeVars == <<pc, srcExists, source, orig, sniExists, sni, destExists, dest,
              tmpOpen, tmp, idx, written, vmess_count, vless_count,
              stderr, exitCode>>
genVars == <<gpc, template, replacements, proxy_lines>>
normVars == <<npc, raw, norm, renorm, trip>>
vars == <<pipeVars, genVars, normVars>>

PipeIdle ==
  /\ pc = "idle" /\ srcExists = FALSE /\ source = <<>> /\ orig = <<>>
  /\ sniExists = FALSE /\ sni = <<>> /\ destExists = FALSE /\ dest = <<>>
  /\ tmpOpen = FALSE /\ tmp = <<>> /\ idx = 0 /\ written = 0
  /\ vmess_count = 0 /\ vless_count = 0 /\ stderr = <<>> /\ exitCode = -1
GenIdle ==
  /\ gpc = "idle" /\ template = NoLine /\ replacements = <<>>
  /\ proxy_lines = [out |-> <<>>, errs |-> 0]
NormIdle ==
  /\ npc = "idle" /\ raw = <<>> /\ norm = <<>> /\ renorm = <<>>
  /\ trip = [ok |-> FALSE, d |-> <<>>]

(***************************************************************************)
(* The pipeline: main() runs decode_file_inplace, then encode_files.       *)
(***************************************************************************)
PipeInit ==
  /\ pc = "decode"
  /\ srcExists \in BOOLEAN
  /\ source \in (IF srcExists THEN SeqsUpTo(SampleLines, MaxLines) ELSE {<<>>})
  /\ orig = source
  /\ sniExists \in BOOLEAN
  /\ sni \in (IF sniExists THEN {SniFile(n) : n \in {0, 1, MaxSubs}} ELSE {<<>>})
  /\ destExists = FALSE /\ dest = <<>>
  /\ tmpOpen = FALSE /\ tmp = <<>> /\ idx = 0 /\ written = 0
  /\ vmess_count = 0 /\ vless_count = 0 /\ stderr = <<>> /\ exitCode = -1

\* decode_file_inplace up to the loop: the existence check, the temporary
\* file, the counters
DecodeOpen ==
  /\ pc = "decode"
  /\ IF ~srcExists
     THEN /\ stderr' = Append(stderr, Msg("fatal", 0))
          /\ exitCode' = 1
          /\ pc' = "exit"
          /\ UNCHANGED <<tmpOpen, tmp>>
     ELSE /\ tmpOpen' = TRUE
          /\ tmp' = <<>>
          /\ pc' = "scan"
          /\ UNCHANGED <<stderr, exitCode>>
  /\ idx' = 0 /\ written' = 0 /\ vmess_count' = 0 /\ vless_count' = 0
  /\ UNCHANGED <<srcExists, source, orig, sniExists, sni, destExists, dest>>
  /\ UNCHANGED <<genVars, normVars>>

\* one iteration of the loop over the source lines
DecodeLineInPlace ==
  /\ pc = "scan" /\ idx < Len(source)
  /\ idx' = idx + 1
  /\ LET r == decode_vmess_or_vless_line(source[idx + 1])
     IN  IF source[idx + 1].kind # "blank" /\ r.ok
         THEN source' = [source EXCEPT ![idx + 1] = compact(normalize_entry(r.d))]
         ELSE source' = source
  /\ UNCHANGED <<pc, srcExists, orig, sniExists, sni, destExists, dest, tmpOpen,
                 tmp, written, vmess_count, vless_count, stderr, exitCode>>
  /\ UNCHANGED <<genVars, normVars>>

DecodeLine ==
  /\ pc = "scan" /\ idx < Len(source)
  /\ idx' = idx + 1
  /\ LET line == source[idx + 1]
         r == decode_vmess_or_vless_line(line)
         n == normalize_entry(r.d)
     IN  IF StripLine(line).kind = "blank"
         THEN UNCHANGED <<tmp, written, vmess_count, vless_count, stderr>>
         ELSE IF r.ok
         THEN /\ tmp' = Append(tmp, compact(n))
              /\ written' = written + 1
              /\ IF Get(n, "_type") = PyS(S_vmess)
                 THEN vmess_count' = vmess_count + 1 /\ UNCHANGED vless_count
                 ELSE vless_count' = vless_count + 1 /\ UNCHANGED vmess_count
              /\ UNCHANGED stderr
         ELSE /\ stderr' = Append(stderr, Msg("decode", idx + 1))
              /\ UNCHANGED <<tmp, written, vmess_count, vless_count>>
  /\ UNCHANGED <<pc, srcExists, source, orig, sniExists, sni, destExists, dest,
                 tmpOpen, exitCode>>
  /\ UNCHANGED <<genVars, normVars>>

\* the end of the two with blocks: the temporary file is closed
DecodeClose ==
  /\ pc = "scan" /\ idx = Len(source)
  /\ tmpOpen' = FALSE
  /\ pc' = "closed"
  /\ UNCHANGED <<srcExists, source, orig, sniExists, sni, destExists, dest, tmp,
                 idx, written, vmess_count, vless_count, stderr, exitCode>>
  /\ UNCHANGED <<genVars, normVars>>

\* os.replace(tmp_name, path)
DecodeReplace ==
  /\ pc = "closed"
  /\ source' = tmp
  /\ srcExists' = TRUE
  /\ tmp' = <<>>
  /\ pc' = "encode"
  /\ UNCHANGED <<orig, sniExists, sni, destExists, dest, tmpOpen, idx, written,
                 vmess_count, vless_count, stderr, exitCode>>
  /\ UNCHANGED <<genVars, normVars>>

\* encode_files(tmpl, sni, outp), then the end of main
EncodeFiles ==
  /\ pc = "encode"
  /\ LET r == encode_files(srcExists, source, sniExists, sni)
     IN  /\ exitCode' = r.exit
         /\ stderr' = stderr \o r.msgs
         /\ destExists' = (destExists \/ r.wrote)
         /\ dest' = IF r.wrote THEN r.lines ELSE dest
  /\ pc' = "exit"
  /\ UNCHANGED <<srcExists, source, orig, sniExists, sni, tmpOpen, tmp, idx,
                 written, vmess_count, vless_count>>
  /\ UNCHANGED <<genVars, normVars>>

Init == PipeInit /\ GenIdle /\ NormIdle
Next == DecodeOpen \/ DecodeLine \/ DecodeClose \/ DecodeReplace \/ EncodeFiles
Spec == Init /\ [][Next]_vars

(***************************************************************************)
(* A call of make_proxy_lines(template, replacements), on the templates    *)
(* the decode pass writes and on templates it never writes.                *)
(***************************************************************************)
Obj(members) == [NoLine EXCEPT !.kind = "brace", !.body = "object", !.obj = members]

\* what decode_file_inplace writes for a line
Decoded(line) == compact(normalize_entry(decode_vmess_or_vless_line(line).d))

T_rawvmess ==
  Obj(<< E("sni", PyS(<<"o","l","d">>)), E("ps", PyI(<<"5">>)),
         E("net", PyS(S_ws)) >>)
T_notype ==
  Obj(<< E("_type", PyS(S_vless)), E("id", PyS(<<"u">>)), E("add", PyS(<<"h">>)),
         E("port", PyS(<<"1">>)), E("host", PyS(<<"h">>)) >>)
T_noid ==
  Obj(<< E("_type", PyS(S_vless)), E("sni", PyS(<<"s">>)), E("ps", PyS(<<"P">>)) >>)
T_xhttp ==
  Obj(<< E("_type", PyS(S_vless)), E("id", PyS(<<"u">>)), E("add", PyS(<<"h">>)),
         E("port", PyS(<<"1">>)), E("type", PyS(S_xhttp)), E("host", PyS(<<"h">>)),
         E("sni", PyS(<<"s">>)), E("ps", PyS(<<"P">>)), E("allowInsecure", PyI(<<"0">>)) >>)
T_array == [NoLine EXCEPT !.kind = "text", !.body = "array", !.raw = <<"[","1","]">>]

Templates ==
  {Decoded(l) : l \in GoodLines}
  \cup {L_json, T_rawvmess, T_notype, T_noid, T_xhttp, T_array,
        L_badjson, L_text, L_badport}

GenInit ==
  /\ gpc = "call"
  /\ template \in Templates
  /\ replacements \in SeqsUpTo({C_a, C_b}, MaxSubs)
  /\ proxy_lines = [out |-> <<>>, errs |-> 0]

MakeProxyLines ==
  /\ gpc = "call"
  /\ proxy_lines' = make_proxy_lines(template, replacements)
  /\ gpc' = "returned"
  /\ UNCHANGED <<template, replacements, pipeVars, normVars>>

InitGen == GenInit /\ PipeIdle /\ NormIdle
NextGen == MakeProxyLines
SpecGen == InitGen /\ [][NextGen]_vars

(***************************************************************************)
(* A raw record through normalize_entry, then through normalize_entry      *)
(* again, or through the codec of its scheme and back.                     *)
(***************************************************************************)
Opt(k, vals) == {<<>>} \cup {<<E(k, v)>> : v \in vals}
Reverse(d) == [i \in DOMAIN d |-> d[Len(d) + 1 - i]]

RawRecords ==
  { IF rev THEN Reverse(ty \o po \o ai \o tp \o ho \o xs)
    ELSE ty \o po \o ai \o tp \o ho \o xs :
      ty \in Opt("_type", {PyS(S_vmess), PyS(S_vless), PyS(<<"s","s">>)}),
      po \in Opt("port", {PyI(<<"4","4","3">>), PyS(<<"0","4","4","3">>), PyNone}),
      ai \in Opt("allowInsecure",
                 {PyI(<<"0">>), PyI(<<"1">>), PyI(<<"2">>), PyTrue, PyFalse,
                  PyS(<<" ","Y","e","s">>), PyS(<<"N","O">>), Empty,
                  PyF(<<"2",".","5">>), PyNone}),
      tp \in Opt("type", {Empty, PyS(S_ws)}),
      ho \in { <<>>,
               << E("id", PyS(<<"u">>)), E("add", PyS(<<"h",".","x">>)),
                  E("ps", PyS(<<"N">>)), E("host", PyS(<<"H">>)) >> },
      xs \in Opt("x", {PyS(<<"1">>)}),
      rev \in BOOLEAN }

\* the wire form of a normalized record: vmess:// + base64 of its JSON
\* (make_vmess_lines), or encode_vless_url
Encode(n) ==
  IF Get(n, "_type") = PyS(S_vmess)
  THEN [ok |-> TRUE, line |-> VmessB64(JsonDumps(n))]
  ELSE encode_vless_url(n)

\* normalize(decode(encode(n))): ok is FALSE when a codec raises
RoundTripOf(n) ==
  LET e == Encode(n)
      r == decode_vmess_or_vless_line(e.line)
  IN  IF e.ok /\ r.ok THEN [ok |-> TRUE, d |-> normalize_entry(r.d)]
      ELSE [ok |-> FALSE, d |-> <<>>]

NormInit ==
  /\ npc = "raw"
  /\ raw \in RawRecords
  /\ norm = <<>> /\ renorm = <<>> /\ trip = [ok |-> FALSE, d |-> <<>>]

Normalize ==
  /\ npc = "raw"
  /\ norm' = normalize_entry(raw)
  /\ npc' = "normalized"
  /\ UNCHANGED <<raw, renorm, trip, pipeVars, genVars>>

Renormalize ==
  /\ npc = "normalized"
  /\ renorm' = normalize_entry(norm)
  /\ npc' = "renormalized"
  /\ UNCHANGED <<raw, norm, trip, pipeVars, genVars>>

RoundTrip ==
  /\ npc = "normalized"
  /\ trip' = RoundTripOf(norm)
  /\ npc' = "tripped"
  /\ UNCHANGED <<raw, norm, renorm, pipeVars, genVars>>

InitNorm == NormInit /\ PipeIdle /\ GenIdle
NextNorm == Normalize \/ Renormalize \/ RoundTrip
SpecNorm == InitNorm /\ [][NextNorm]_vars

(***************************************************************************)
(* Properties.                                                             *)
(***************************************************************************)
NonBlankIdx(lines) == {i \in DOMAIN lines : lines[i].kind # "blank"}
BadIdx(lines) == {i \in NonBlankIdx(lines) : Malformed(lines[i])}
WellFormedOf(lines) ==
  SelectSeq(lines, LAMBDA l : l.kind # "blank" /\ ~Malformed(l))
Committed == pc = "encode"

\* C1: when exactly one non-blank line of the source, line k, is malformed,
\* the decode pass has read every line, written N-1 normalized records in
\* their order, printed one diagnostic, which names k, and the source is
\* replaced with exactly those N-1 records.
C1_PartialFailureIsolation ==
  (Committed /\ Cardinality(BadIdx(orig)) = 1) =>
    LET k == CHOOSE i \in BadIdx(orig) : TRUE
        good == WellFormedOf(orig)
    IN  /\ idx = Len(orig)
        /\ written = Cardinality(NonBlankIdx(orig)) - 1
        /\ vmess_count + vless_count = written
        /\ stderr = <<Msg("decode", k)>>
        /\ source = [i \in DOMAIN good |-> Decoded(good[i])]
        /\ Len(source) = written

C1_Witness ==
  /\ Committed /\ Len(orig) = 3 /\ BadIdx(orig) = {2}
  /\ orig[1] = L_vless /\ orig[3] = L_vmess
  /\ written = 2 /\ stderr = <<Msg("decode", 2)>>

\* C2: until the rename the source holds its original content, and the
\* source changes only in the rename, which happens after every line was
\* processed and the temporary file was closed.
C2_AtomicReplacement ==
  /\ [](pc \in {"decode", "scan", "closed"} => source = orig)
  /\ [][source' # source =>
          /\ pc = "closed" /\ pc' = "encode"
          /\ ~tmpOpen /\ idx = Len(orig)
          /\ source' = tmp]_vars

C2_Witness ==
  /\ pc = "scan" /\ idx = 2 /\ Len(source) = 3 /\ Len(tmp) = 2
  /\ source = orig /\ tmp # SubSeq(source, 1, 2)

\* C5 as stated: every line the decode pass writes lists exactly the
\* canonical keys of a scheme, in order, and no other key.
C5_KeysAreCanonicalOnly ==
  \A i \in DOMAIN tmp :
    Keys(tmp[i].obj) \in {WANTED_ORDER_VMESS, WANTED_ORDER_VLESS}

\* C5, amended: every line the decode pass writes lists the canonical keys
\* of its scheme, in order, followed by the one key "_type" that carries
\* the scheme, whatever keys the input carried.
C5_KeysAreCanonicalThenType ==
  \A i \in DOMAIN tmp :
    /\ tmp[i].kind = "brace" /\ tmp[i].body = "object"
    /\ Keys(tmp[i].obj) =
         (IF tmp[i].obj[Len(tmp[i].obj)].v = PyS(S_vmess)
          THEN WANTED_ORDER_VMESS ELSE WANTED_ORDER_VLESS) \o <<"_type">>
    /\ tmp[i].obj[Len(tmp[i].obj)].v \in {PyS(S_vmess), PyS(S_vless)}

C5_Witness ==
  /\ pc = "scan" /\ idx = 2 /\ Len(tmp) = 2
  /\ orig[1] = L_vmess /\ orig[2] = L_vless

\* the scheme of the record a well-formed line decodes to
SchemeOf(line) == Get(normalize_entry(decode_vmess_or_vless_line(line).d), "_type")

\* C6 as stated: after the decode pass a vmess record is a line of compact
\* JSON and a vless record is a line of vless:// URI text.
C6_JsonOrUriByScheme ==
  Committed =>
    LET good == WellFormedOf(orig)
    IN  /\ Len(source) = Len(good)
        /\ \A i \in DOMAIN source :
             IF SchemeOf(good[i]) = PyS(S_vmess)
             THEN source[i].kind = "brace" ELSE source[i].kind = "vless"

\* C6, amended: after the decode pass every line of the source is the
\* compact JSON of one normalized record, for both schemes; the scheme is
\* the value of the record's "_type" key, and the source holds as many
\* records of each scheme as the pass counted.
C6_JsonForBothSchemes ==
  (pc \in {"encode", "exit"} /\ srcExists) =>
    /\ Len(source) = written
    /\ \A i \in DOMAIN source :
         /\ source[i].kind = "brace" /\ source[i].body = "object"
         /\ normalize_entry(source[i].obj) = source[i].obj
    /\ Cardinality({i \in DOMAIN source :
                      Get(source[i].obj, "_type") = PyS(S_vmess)}) = vmess_count
    /\ Cardinality({i \in DOMAIN source :
                      Get(source[i].obj, "_type") = PyS(S_vless)}) = vless_count

C6_Witness ==
  /\ Committed /\ Len(source) = 2
  /\ Get(source[1].obj, "_type") = PyS(S_vless) /\ source[1].kind = "brace"
  /\ Get(source[2].obj, "_type") = PyS(S_vmess) /\ source[2].kind = "brace"

\* C7: the run ends with status 1 exactly when the source is missing, the
\* substitution file is missing, or no source line survived the decode
\* pass, and with status 0 otherwise; with an empty substitution list the
\* destination is written empty.
FatalClass ==
  \/ ~srcExists
  \/ ~sniExists
  \/ WellFormedOf(orig) = <<>>

C7_ExitStatus ==
  pc = "exit" =>
    /\ exitCode \in {0, 1}
    /\ exitCode = 1 <=> FatalClass
    /\ (exitCode = 0 /\ read_lines(sni) = <<>>) => destExists /\ dest = <<>>

C7_Witness ==
  /\ pc = "exit" /\ exitCode = 0
  /\ sniExists /\ Len(sni) = 0 /\ destExists /\ dest = <<>>
  /\ Len(orig) = 3 /\ Len(source) = 1
  /\ \E i \in DOMAIN stderr : stderr[i].src = "decode"

\* C10: once the decode pass has committed with at least one record
\* written, the template encode_files reads is a JSON object with every
\* canonical key of its scheme and the "_type" key, no substitution takes
\* the vmess fallback or fails the vless encoding, and the run writes one
\* destination line per substitution.
TemplateComplete(t) ==
  /\ JsonParses(t) /\ t.body = "object"
  /\ Has(t.obj, "_type")
  /\ LET order == IF Get(t.obj, "_type") = PyS(S_vless)
                  THEN WANTED_ORDER_VLESS ELSE WANTED_ORDER_VMESS
     IN  \A i \in DOMAIN order : Has(t.obj, order[i])

C10_PipelineTemplate ==
  /\ (Committed /\ written > 0) =>
       LET t == read_first_nonempty_line(source)
       IN  /\ TemplateComplete(t)
           /\ \A i \in DOMAIN read_lines(sni) :
                IF ProxyType(t) = PyS(S_vmess)
                THEN vmess_line(t, read_lines(sni)[i]).body = "object"
                ELSE vless_line(t, read_lines(sni)[i]).ok
  /\ (pc = "exit" /\ written > 0 /\ sniExists) =>
       /\ destExists
       /\ Len(dest) = Len(read_lines(sni))
       /\ \A i \in DOMAIN stderr : stderr[i].src # "vless"

C10_Witness ==
  /\ pc = "exit" /\ written = 2 /\ Len(sni) = 3
  /\ Len(dest) = 2 /\ dest[1].kind = "vless" /\ orig[1] = L_vless

\* the line make_proxy_lines generates from one substitution value, and
\* whether generating it succeeds
Encodes(t, v) == ProxyType(t) = PyS(S_vmess) \/ vless_line(t, v).ok
LineFor(t, v) ==
  IF ProxyType(t) = PyS(S_vmess) THEN vmess_line(t, v) ELSE vless_line(t, v).line

\* C3: when every one of the M substitutions encodes, make_proxy_lines
\* returns M lines and the i-th is the line generated from the i-th
\* substitution value, duplicates included, on the vmess and the vless path.
C3_CountAndOrder ==
  (gpc = "returned" /\ \A i \in DOMAIN replacements : Encodes(template, replacements[i]))
  => /\ Len(proxy_lines.out) = Len(replacements)
     /\ proxy_lines.errs = 0
     /\ \A i \in DOMAIN replacements :
          proxy_lines.out[i] = LineFor(template, replacements[i])

C3_Witness ==
  /\ gpc = "returned" /\ template = Decoded(L_json)
  /\ replacements = <<C_a, C_b, C_a>>
  /\ Len(proxy_lines.out) = 3
  /\ proxy_lines.out[1] = proxy_lines.out[3] /\ proxy_lines.out[1] # proxy_lines.out[2]

\* the template record with sni, host and ps rewritten for v, field by field
RewriteOf(t, v, vless) ==
  [i \in DOMAIN t |->
     CASE t[i].k = "sni" -> E("sni", PyS(v))
       [] t[i].k = "host" /\ (vless => Get(t, "type") \notin {PyS(S_xhttp), PyS(S_ws)})
            -> E("host", PyS(v))
       [] t[i].k = "ps" -> E("ps", PyS(t[i].v.s \o <<" ", "(">> \o v \o <<")">>))
       [] OTHER -> t[i]]

\* C9: for a template that is a JSON object, the record encoded into the
\* line of a substitution value v is the template with sni set to v, host
\* set to v (vless: unless type is xhttp or ws), ps followed by " (v)" and
\* every other field as in the template; on the vless path either every
\* substitution gets its line or none does.
C9_PerSubstitutionRewrite ==
  (gpc = "returned" /\ JsonParses(template) /\ template.body = "object") =>
    LET t == JsonLoads(template.obj)
        out == proxy_lines.out
    IN  IF ProxyType(template) = PyS(S_vmess)
        THEN /\ Len(out) = Len(replacements)
             /\ \A i \in DOMAIN out :
                  /\ out[i].kind = "vmess" /\ out[i].body = "object"
                  /\ JsonLoads(out[i].obj) = RewriteOf(t, replacements[i], FALSE)
        ELSE /\ Len(out) \in {0, Len(replacements)}
             /\ \A i \in DOMAIN out :
                  out[i] = encode_vless_url(RewriteOf(t, replacements[i], TRUE)).line

C9_Witness ==
  /\ gpc = "returned" /\ template = T_xhttp /\ replacements = <<C_a, C_b>>
  /\ Len(proxy_lines.out) = 2
  /\ \E i \in DOMAIN proxy_lines.out[2].query :
       proxy_lines.out[2].query[i] = E("host", <<"h">>)
  /\ \E i \in DOMAIN proxy_lines.out[2].query :
       proxy_lines.out[2].query[i] = E("sni", C_b)
  /\ proxy_lines.out[2].frag = <<"P", " ", "(">> \o C_b \o <<")">>

CanonicalOnly(r) ==
  \A i \in DOMAIN r :
    \/ r[i].k = "_type"
    \/ \E j \in DOMAIN WANTED_ORDER_VLESS : WANTED_ORDER_VLESS[j] = r[i].k
    \/ \E j \in DOMAIN WANTED_ORDER_VMESS : WANTED_ORDER_VMESS[j] = r[i].k

\* C4: for a record r with canonical fields only, of either scheme,
\* normalize(decode(encode(normalize(r)))) equals normalize(r).
C4_RoundTrip ==
  (npc = "tripped" /\ CanonicalOnly(raw)) => (trip.ok /\ trip.d = norm)

\* C4 on the vmess codec alone, where it holds
C4_RoundTripVmess ==
  (npc = "tripped" /\ Get(norm, "_type") = PyS(S_vmess)) => (trip.ok /\ trip.d = norm)

\* C8: normalize_entry(normalize_entry(r)) equals normalize_entry(r), the
\* scheme tag and the order of the keys included.
C8_Idempotence ==
  npc = "renormalized" => renorm = norm

C8_Witness ==
  /\ npc = "renormalized"
  /\ Has(raw, "_type") /\ Get(raw, "_type") = PyS(S_vless)
  /\ Has(raw, "allowInsecure") /\ Get(raw, "allowInsecure") = PyS(<<" ","Y","e","s">>)
  /\ Has(raw, "port") /\ Get(raw, "port") = PyI(<<"4","4","3">>)
  /\ Has(raw, "x") /\ raw[1].k = "x"
  /\ Get(norm, "allowInsecure") = PyI(<<"1">>) /\ Get(norm, "port") = PyS(<<"4","4","3">>)
====
